---- MODULE Spec2Model ----
(***************************************************************************)
(* Model of app/main.py: the /talk endpoint (handle_conversation) and the  *)
(* RAG activation workflow (process_rag) it awaits, together with the      *)
(* upstream conversational-AI API they call through the blocking           *)
(* `requests` library, and the event-loop thread on which each server      *)
(* process runs the `async def` handlers of the requests it serves.        *)
(***************************************************************************)
EXTENDS Integers, Sequences, FiniteSets, TLC

(***************************************************************************)
(* Bounds of the model                                                     *)
(***************************************************************************)
\* longest run of not-finished answers an upstream indexing job gives
MaxPending == 10

\* concurrent /talk requests
Procs == {"t1", "t2"}

\* server processes, each with its own event loop
Workers == {"w1", "w2"}

\* upstream HTTP status codes that are tried at every call
StatusCodes == {200, 201, 404}

(***************************************************************************)
(* Python values                                                           *)
(***************************************************************************)
None == "<None>"

NoValue == [kind |-> "unset"]

\* bool(v) for the values that reach `if doc_id:`
Truthy(v) == v # None /\ v # ""

\* dict.get(key) with the default None
Get(d, key) == IF key \in DOMAIN d THEN d[key] ELSE None

\* d[key] = value on a dict
SetItem(d, key, value) ==
    [k \in (DOMAIN d) \cup {key} |-> IF k = key THEN value ELSE d[k]]

\* str.lower(), on strings held as sequences of one-character strings
LowerChar(c) ==
    CASE c = "B" -> "b"
      [] c = "Y" -> "y"
      [] c = "E" -> "e"
      [] c = "N" -> "n"
      [] c = "D" -> "d"
      [] c = "G" -> "g"
      [] c = "O" -> "o"
      [] c = "H" -> "h"
      [] c = "I" -> "i"
      [] OTHER -> c

\* a comparison that forgets to lower-case the content
LowerForgotten(s) == s

Lower(s) == [k \in 1..Len(s) |-> LowerChar(s[k])]

\* the literal list ["goodbye", "bye", "end"]
EndWords ==
    { <<"g", "o", "o", "d", "b", "y", "e">>, <<"b", "y", "e">>, <<"e", "n", "d">> }

(***************************************************************************)
(* Request models                                                          *)
(***************************************************************************)
Message(role, content) == [role |-> role, content |-> content]

ConversationRequest(messages, agent_id, api_key) ==
    [messages |-> messages, agent_id |-> agent_id, api_key |-> api_key]

\* embedding_model and max_documents_length take their declared defaults
\* when the caller does not pass them
RAGRequest(document_id, agent_id, api_key) ==
    [document_id |-> document_id, agent_id |-> agent_id, api_key |-> api_key,
     embedding_model |-> "e5_mistral_7b_instruct",
     max_documents_length |-> 10000]

(***************************************************************************)
(* Exceptions                                                              *)
(***************************************************************************)
HTTPException(status_code, detail) ==
    [type |-> "HTTPException", status_code |-> status_code, detail |-> detail]

\* any other exception: its class and its str()
Fault(type, msg) == [type |-> type, status_code |-> 0, detail |-> msg]

ConnectionError == Fault("ConnectionError", "connection failed")
JSONDecodeError == Fault("JSONDecodeError", "Expecting value")
KeyError(key) == Fault("KeyError", "'" \o key \o "'")
IndexError == Fault("IndexError", "list index out of range")

\* the two renderings of str() on an HTTPException that installed
\* Starlette releases produce
HttpStrBuilds == {"empty", "code_detail"}

(***************************************************************************)
(* Upstream responses as `requests` delivers them                          *)
(***************************************************************************)
\* requests raised instead of returning a response
NetworkFault == [kind |-> "fault", status_code |-> 0, valid |-> FALSE, body |-> NoValue]

\* a response whose body parses as JSON
Http(code, body) == [kind |-> "http", status_code |-> code, valid |-> TRUE, body |-> body]

\* a response whose body does not parse: .json() raises
HttpMalformed(code) == [kind |-> "http", status_code |-> code, valid |-> FALSE, body |-> NoValue]

(***************************************************************************)
(* Agent configurations held upstream                                      *)
(***************************************************************************)
KbEntry(id, mode) == [id |-> id, name |-> "doc-" \o id, usage_mode |-> mode]

AgentConfig(kb) ==
    [name |-> "support-agent",
     agent |-> [language |-> "en",
                prompt |-> [prompt |-> "You are helpful",
                            rag |-> [enabled |-> FALSE,
                                     embedding_model |-> "old-model",
                                     max_documents_length |-> 500,
                                     max_vector_distance |-> 1],
                            knowledge_base |-> kb]]]

KnowledgeBases ==
    { << KbEntry("a", "prompt"), KbEntry("b", "prompt") >>,
      << KbEntry("a", "prompt") >>,
      << KbEntry("b", "prompt"), KbEntry("a", "auto"), KbEntry("b", "prompt") >> }

\* a well-formed JSON body that lacks the knowledge-base list
ConfigWithoutKb ==
    [name |-> "support-agent",
     agent |-> [language |-> "en", prompt |-> [prompt |-> "You are helpful"]]]

AgentId == "agent-1"
ApiKey == "key-1"

(***************************************************************************)
(* State                                                                   *)
(***************************************************************************)
VARIABLES
    httpExcStr,   \* which rendering str(HTTPException) has in this build
    worker,       \* the server process that serves each request
    documents,    \* upstream: the documents a conversation can refer to
    agents,       \* upstream: agent_id -> stored agent configuration
    indexJob,     \* upstream: the indexing job each invocation started
    loopOwner,    \* per process, the request whose coroutine occupies its
                  \* event-loop thread
    pc,           \* position of each request's coroutine
    talk,         \* locals of handle_conversation, per request
    rag,          \* locals of process_rag, per request
    calls,        \* upstream calls each request has issued, in order
    put_body,     \* the json= argument of the PUT each request issued
    raised,       \* the exception first raised inside each request
    rag_result,   \* how process_rag ended for each request
    outcome       \* how handle_conversation ended for each request

vars == << httpExcStr, worker, documents, agents, indexJob, loopOwner, pc, talk, rag, calls,
           put_body, raised, rag_result, outcome >>

max_retries == 10

\* how a coroutine ends
Pending == [kind |-> "running", exc |-> NoValue, value |-> NoValue]
Raised(e) == [kind |-> "raised", exc |-> e, value |-> NoValue]
Returned(v) == [kind |-> "returned", exc |-> NoValue, value |-> v]

\* str(e) as the except clauses evaluate it
Str(e) ==
    IF e.type = "HTTPException"
    THEN IF httpExcStr = "code_detail"
         THEN ToString(e.status_code) \o ": " \o e.detail
         ELSE ""
    ELSE e.detail

\* an except clause that lets an HTTPException pass and converts the rest
RagExceptPassesHttp(e) ==
    IF e.type = "HTTPException" THEN e ELSE HTTPException(500, Str(e))

\* an except clause that lets the exception pass unchanged
RagExceptReraises(e) == e

\* except Exception as e: raise HTTPException(status_code=500, detail=str(e))
\* in process_rag
RagExcept(e) == HTTPException(500, Str(e))

\* the same clause in handle_conversation
TalkExcept(e) == HTTPException(500, Str(e))

\* time.sleep(secs): blocks the calling thread, then returns None
time_sleep(secs) == None

\* `await v`: a value that is not awaitable raises TypeError
AwaitExc(v) ==
    IF v = None
    THEN Fault("TypeError", "object NoneType can't be used in 'await' expression")
    ELSE NoValue

Count(log, op) == Cardinality({k \in 1..Len(log) : log[k].op = op})

\* a test that accepts every 2xx code
RejectedUnless2xx(response) == response.status_code \notin 200..299

\* `if response.status_code != 200`, the test that follows every call
Rejected(response) == response.status_code # 200

\* the poll loop comparing against a status the upstream never sends
StatusBranchMisspelt(status) ==
    IF status = "SUCCESS" THEN "break"
    ELSE IF status = "FAILED" THEN "raise"
    ELSE "retry"

\* a poll loop that leaves the loop on FAILED as it does on SUCCEEDED
StatusBranchBreaksOnFailed(status) ==
    IF status = "SUCCEEDED" \/ status = "FAILED" THEN "break"
    ELSE "retry"

\* the branch the poll loop takes on the parsed status
StatusBranch(status) ==
    IF status = "SUCCEEDED" THEN "break"
    ELSE IF status = "FAILED" THEN "raise"
    ELSE "retry"

(***************************************************************************)
(* The upstream API                                                        *)
(***************************************************************************)
ErrorBody == [detail |-> "error"]

\* what one upstream call can deliver: no response at all, a rejection, a
\* 200 with an unparsable body, or a 200 with one of the given bodies
Responses(bodies) ==
    {NetworkFault}
      \cup {Http(c, ErrorBody) : c \in StatusCodes \ {200}}
      \cup {HttpMalformed(200)}
      \cup {Http(200, b) : b \in bodies}

\* what a call whose body the code never parses can deliver
ResponsesUnparsed(bodies) == Responses(bodies) \ {HttpMalformed(200)}

\* bodies of the conversation endpoint
RelayBodies ==
    { [reply |-> "hello"], [reply |-> "hello", document_id |-> ""] }
      \cup { [reply |-> "hello", document_id |-> d] : d \in documents }

\* lengths of the run of not-finished answers an indexing job gives
PendingRuns == {0, 1, MaxPending}

\* an indexing job answers a not-finished status `pend` times, then `final`
IndexJobs == [pend : PendingRuns, final : {"SUCCEEDED", "FAILED"}]

NoJob == [pend |-> 0, final |-> "none"]

\* statuses the job reports while it is not finished
UnfinishedStatuses == {"PENDING", "IN_PROGRESS"}

\* the status bodies the n-th poll (counted from 0) of a job can get
StatusBodies(job, n) ==
    IF n < job.pend
    THEN {[status |-> s] : s \in UnfinishedStatuses}
    ELSE {[status |-> job.final]}

\* messages lists of the requests
Hi == <<"h", "i">>
MixedBye == <<"B", "y", "e">>
UpperEnd == <<"E", "N", "D">>
MixedGoodbye == <<"G", "o", "o", "d", "B", "y", "e">>
ByeBang == <<"b", "y", "e", "!">>

MessageLists ==
    { << >>,
      << Message("user", Hi) >>,
      << Message("user", MixedBye), Message("user", ByeBang) >>,
      << Message("user", Hi), Message("user", MixedBye) >>,
      << Message("user", UpperEnd) >>,
      << Message("user", MixedGoodbye) >> }

(***************************************************************************)
(* Initial state                                                           *)
(***************************************************************************)
NoTalk ==
    [request |-> NoValue, conversation_response |-> NoValue,
     conversation_data |-> NoValue]

NoRag ==
    [request |-> NoValue, index_response |-> NoValue,
     status_response |-> NoValue, retry_count |-> 0,
     agent_response |-> NoValue, agent_config |-> NoValue,
     update_response |-> NoValue]

\* everything but the deployment and the upstream's documents and agents
InitRequests ==
    /\ httpExcStr \in HttpStrBuilds
    /\ indexJob = [i \in Procs |-> NoJob]
    /\ loopOwner = [w \in Workers |-> "none"]
    /\ pc = [i \in Procs |-> "idle"]
    /\ talk = [i \in Procs |-> NoTalk]
    /\ rag = [i \in Procs |-> NoRag]
    /\ calls = [i \in Procs |-> << >>]
    /\ put_body = [i \in Procs |-> NoValue]
    /\ raised = [i \in Procs |-> NoValue]
    /\ rag_result = [i \in Procs |-> Pending]
    /\ outcome = [i \in Procs |-> Pending]

\* one server process serves every request
Init ==
    /\ InitRequests
    /\ worker = [i \in Procs |-> "w1"]
    /\ documents = {"b"}
    /\ \E kb \in KnowledgeBases : agents = [a \in {AgentId} |-> AgentConfig(kb)]

\* two server processes, one request each, and conversations about two
\* documents of the agent's knowledge base
InitWorkers ==
    /\ InitRequests
    /\ worker = [i \in Procs |-> IF i = "t1" THEN "w1" ELSE "w2"]
    /\ documents = {"a", "b"}
    /\ agents = [a \in {AgentId} |->
                    AgentConfig(<< KbEntry("a", "prompt"), KbEntry("b", "prompt") >>)]

(***************************************************************************)
(* How a request ends                                                      *)
(***************************************************************************)
\* the coroutine finishes and the event loop is free again
Finish(i, ragres, out) ==
    /\ pc' = [pc EXCEPT ![i] = "done"]
    /\ loopOwner' = [loopOwner EXCEPT ![worker[i]] = "none"]
    /\ rag_result' = [rag_result EXCEPT ![i] = ragres]
    /\ outcome' = [outcome EXCEPT ![i] = out]

\* an exception raised inside process_rag's try block passes through its
\* except clause and then through handle_conversation's
RagRaise(i, e) ==
    /\ raised' = [raised EXCEPT ![i] = e]
    /\ Finish(i, Raised(RagExcept(e)), Raised(TalkExcept(RagExcept(e))))

\* an exception raised inside handle_conversation's own try block
TalkRaise(i, e) ==
    /\ raised' = [raised EXCEPT ![i] = e]
    /\ Finish(i, rag_result[i], Raised(TalkExcept(e)))

Issue(i, op, response) ==
    calls' = [calls EXCEPT ![i] = Append(@, [op |-> op, response |-> response])]

(***************************************************************************)
(* handle_conversation                                                     *)
(***************************************************************************)
\* the event loop starts the coroutine of a /talk request when its thread
\* is not occupied by another coroutine
Accept(i) ==
    /\ pc[i] = "idle"
    /\ loopOwner[worker[i]] = "none"
    /\ \E messages \in MessageLists :
         talk' = [talk EXCEPT ![i].request =
                     ConversationRequest(messages, AgentId, ApiKey)]
    /\ loopOwner' = [loopOwner EXCEPT ![worker[i]] = i]
    /\ pc' = [pc EXCEPT ![i] = "relay"]
    /\ UNCHANGED << httpExcStr, worker, documents, agents, indexJob, rag, calls, put_body,
                    raised, rag_result, outcome >>

\* the condition under which process_rag is awaited
EndsConversation(request, conversation_data) ==
    /\ Lower(request.messages[Len(request.messages)].content) \in EndWords
    /\ Truthy(Get(conversation_data, "document_id"))

\* POST .../conversation up to either the return or the call of process_rag
Relay(i) ==
    /\ pc[i] = "relay"
    /\ loopOwner[worker[i]] = i
    /\ \E conversation_response \in Responses(RelayBodies) :
         /\ Issue(i, "POST_conversation", conversation_response)
         /\ LET request == talk[i].request
                conversation_data == conversation_response.body
                withResponse ==
                    [talk EXCEPT ![i].conversation_response = conversation_response]
            IN  IF conversation_response.kind = "fault"
                THEN /\ TalkRaise(i, ConnectionError)
                     /\ UNCHANGED << talk, rag >>
                ELSE IF Rejected(conversation_response)
                THEN /\ talk' = withResponse
                     /\ TalkRaise(i, HTTPException(conversation_response.status_code,
                                                   "Failed to process conversation"))
                     /\ UNCHANGED rag
                ELSE IF ~conversation_response.valid
                THEN /\ talk' = withResponse
                     /\ TalkRaise(i, JSONDecodeError)
                     /\ UNCHANGED rag
                ELSE IF Len(request.messages) = 0
                THEN /\ talk' = [withResponse EXCEPT
                                    ![i].conversation_data = conversation_data]
                     /\ TalkRaise(i, IndexError)
                     /\ UNCHANGED rag
                ELSE IF EndsConversation(request, conversation_data)
                THEN /\ talk' = [withResponse EXCEPT
                                    ![i].conversation_data = conversation_data]
                     /\ rag' = [rag EXCEPT ![i].request =
                                   RAGRequest(Get(conversation_data, "document_id"),
                                              request.agent_id, request.api_key)]
                     /\ pc' = [pc EXCEPT ![i] = "index"]
                     /\ UNCHANGED << loopOwner, raised, rag_result, outcome >>
                ELSE /\ talk' = [withResponse EXCEPT
                                    ![i].conversation_data = conversation_data]
                     /\ Finish(i, rag_result[i], Returned(conversation_data))
                     /\ UNCHANGED << rag, raised >>
    /\ UNCHANGED << httpExcStr, worker, documents, agents, indexJob, put_body >>

(***************************************************************************)
(* process_rag                                                             *)
(***************************************************************************)
\* POST .../rag-index
BeginIndex(i) ==
    /\ pc[i] = "index"
    /\ loopOwner[worker[i]] = i
    /\ \E index_response \in ResponsesUnparsed({[status |-> "created"]}), job \in IndexJobs :
         /\ Issue(i, "POST_index", index_response)
         /\ IF index_response.kind = "fault"
            THEN /\ RagRaise(i, ConnectionError)
                 /\ UNCHANGED << rag, indexJob >>
            ELSE IF Rejected(index_response)
            THEN /\ rag' = [rag EXCEPT ![i].index_response = index_response]
                 /\ RagRaise(i, HTTPException(index_response.status_code,
                                              "Failed to index document"))
                 /\ UNCHANGED indexJob
            ELSE /\ rag' = [rag EXCEPT ![i].index_response = index_response,
                                       ![i].retry_count = 0]
                 /\ indexJob' = [indexJob EXCEPT ![i] = job]
                 /\ pc' = [pc EXCEPT ![i] = "poll"]
                 /\ UNCHANGED << loopOwner, raised, rag_result, outcome >>
    /\ UNCHANGED << httpExcStr, worker, documents, agents, talk, put_body >>

\* one pass of the while loop up to the sleep: GET .../rag-index and the
\* branches on its answer
Poll(i) ==
    /\ pc[i] = "poll"
    /\ loopOwner[worker[i]] = i
    /\ \E status_response \in
            Responses(StatusBodies(indexJob[i], Count(calls[i], "GET_status"))) :
         /\ Issue(i, "GET_status", status_response)
         /\ LET status == Get(status_response.body, "status")
                withResponse == [rag EXCEPT ![i].status_response = status_response]
            IN  IF status_response.kind = "fault"
                THEN /\ RagRaise(i, ConnectionError)
                     /\ UNCHANGED rag
                ELSE IF Rejected(status_response)
                THEN /\ rag' = withResponse
                     /\ RagRaise(i, HTTPException(status_response.status_code,
                                                  "Failed to check indexing status"))
                ELSE IF ~status_response.valid
                THEN /\ rag' = withResponse
                     /\ RagRaise(i, JSONDecodeError)
                ELSE IF StatusBranch(status) = "break"
                THEN /\ rag' = withResponse
                     /\ IF rag[i].retry_count >= max_retries
                        THEN RagRaise(i, HTTPException(408,
                                          "Timeout waiting for document indexing"))
                        ELSE /\ pc' = [pc EXCEPT ![i] = "get_agent"]
                             /\ UNCHANGED << loopOwner, raised, rag_result, outcome >>
                ELSE IF StatusBranch(status) = "raise"
                THEN /\ rag' = withResponse
                     /\ RagRaise(i, HTTPException(400, "Failed to index document"))
                ELSE /\ rag' = [withResponse EXCEPT ![i].retry_count = @ + 1]
                     /\ pc' = [pc EXCEPT ![i] = "sleep"]
                     /\ UNCHANGED << loopOwner, raised, rag_result, outcome >>
    /\ UNCHANGED << httpExcStr, worker, documents, agents, indexJob, talk, put_body >>

\* a wait that never returns
SleepNeverReturns(i) ==
    /\ pc[i] = "sleep"
    /\ loopOwner[worker[i]] = i
    /\ UNCHANGED vars

\* `await time.sleep(5)`, then the loop condition and the check after the
\* loop.  time.sleep runs on the event-loop thread, which the coroutine
\* keeps for the whole of the wait.
Sleep(i) ==
    /\ pc[i] = "sleep"
    /\ loopOwner[worker[i]] = i
    /\ LET exc == AwaitExc(time_sleep(5))
       IN  IF exc # NoValue
           THEN RagRaise(i, exc)
           ELSE IF rag[i].retry_count < max_retries
           THEN /\ pc' = [pc EXCEPT ![i] = "poll"]
                /\ UNCHANGED << loopOwner, raised, rag_result, outcome >>
           ELSE RagRaise(i, HTTPException(408,
                             "Timeout waiting for document indexing"))
    /\ UNCHANGED << httpExcStr, worker, documents, agents, indexJob, talk, rag, calls, put_body >>

\* agent_config["agent"]["prompt"]["rag"] = {...}
EnableRag(agent_config, request) ==
    [agent_config EXCEPT !.agent.prompt =
        SetItem(@, "rag",
                [enabled |-> TRUE,
                 embedding_model |-> request.embedding_model,
                 max_documents_length |-> request.max_documents_length])]

\* the for loop over enumerate(kb), from index k on
RECURSIVE UpdateUsageMode(_, _, _)
UpdateUsageMode(kb, k, document_id) ==
    IF k > Len(kb)
    THEN kb
    ELSE UpdateUsageMode(
             IF kb[k].id = document_id
             THEN [kb EXCEPT ![k] = SetItem(@, "usage_mode", "auto")]
             ELSE kb,
             k + 1, document_id)

\* the key whose lookup fails in the mutation of agent_config, or None
MissingKey(agent_config) ==
    IF "agent" \notin DOMAIN agent_config THEN "agent"
    ELSE IF "prompt" \notin DOMAIN agent_config.agent THEN "prompt"
    ELSE IF "knowledge_base" \notin DOMAIN agent_config.agent.prompt
    THEN "knowledge_base"
    ELSE None

\* the loop without its `if doc["id"] == request.document_id`
MutateConfigEveryEntry(agent_config, request) ==
    [EnableRag(agent_config, request) EXCEPT !.agent.prompt.knowledge_base =
        [n \in 1..Len(@) |-> SetItem(@[n], "usage_mode", "auto")]]

\* a mutation that adds the document when the knowledge base lacks it
MutateConfigAppendsMissing(agent_config, request) ==
    [EnableRag(agent_config, request) EXCEPT !.agent.prompt.knowledge_base =
        IF \E n \in 1..Len(@) : @[n].id = request.document_id
        THEN UpdateUsageMode(@, 1, request.document_id)
        ELSE Append(@, KbEntry(request.document_id, "auto"))]

\* the configuration after both in-place changes
MutateConfig(agent_config, request) ==
    [EnableRag(agent_config, request) EXCEPT !.agent.prompt.knowledge_base =
        UpdateUsageMode(@, 1, request.document_id)]

\* bodies the agent endpoint can answer a GET with
AgentBodies(agent_id) == {agents[agent_id], ConfigWithoutKb}

\* GET .../agents/{agent_id} and agent_response.json()
GetAgent(i) ==
    /\ pc[i] = "get_agent"
    /\ loopOwner[worker[i]] = i
    /\ \E agent_response \in Responses(AgentBodies(rag[i].request.agent_id)) :
         /\ Issue(i, "GET_agent", agent_response)
         /\ LET withResponse == [rag EXCEPT ![i].agent_response = agent_response]
            IN  IF agent_response.kind = "fault"
                THEN /\ RagRaise(i, ConnectionError)
                     /\ UNCHANGED rag
                ELSE IF Rejected(agent_response)
                THEN /\ rag' = withResponse
                     /\ RagRaise(i, HTTPException(agent_response.status_code,
                                                  "Failed to get agent configuration"))
                ELSE IF ~agent_response.valid
                THEN /\ rag' = withResponse
                     /\ RagRaise(i, JSONDecodeError)
                ELSE /\ rag' = [withResponse EXCEPT
                                   ![i].agent_config = agent_response.body]
                     /\ pc' = [pc EXCEPT ![i] = "mutate"]
                     /\ UNCHANGED << loopOwner, raised, rag_result, outcome >>
    /\ UNCHANGED << httpExcStr, worker, documents, agents, indexJob, talk, put_body >>

\* a mutation step that fetches the configuration again when a key is
\* missing
MutateRefetches(i) ==
    /\ pc[i] = "mutate"
    /\ loopOwner[worker[i]] = i
    /\ LET agent_config == rag[i].agent_config
           key == MissingKey(agent_config)
       IN  IF key # None
           THEN /\ pc' = [pc EXCEPT ![i] = "get_agent"]
                /\ UNCHANGED rag
           ELSE /\ rag' = [rag EXCEPT ![i].agent_config =
                              MutateConfig(agent_config, rag[i].request)]
                /\ pc' = [pc EXCEPT ![i] = "put"]
    /\ UNCHANGED << httpExcStr, worker, documents, agents, indexJob, loopOwner,
                    talk, calls, put_body, raised, rag_result, outcome >>

\* the in-memory changes to agent_config
Mutate(i) ==
    /\ pc[i] = "mutate"
    /\ loopOwner[worker[i]] = i
    /\ LET agent_config == rag[i].agent_config
           key == MissingKey(agent_config)
       IN  IF key # None
           THEN /\ RagRaise(i, KeyError(key))
                /\ UNCHANGED rag
           ELSE /\ rag' = [rag EXCEPT ![i].agent_config =
                              MutateConfig(agent_config, rag[i].request)]
                /\ pc' = [pc EXCEPT ![i] = "put"]
                /\ UNCHANGED << loopOwner, raised, rag_result, outcome >>
    /\ UNCHANGED << httpExcStr, worker, documents, agents, indexJob, talk, calls, put_body >>

\* an upstream that merges a PUT into what it holds: an entry it holds as
\* "auto" stays "auto"
StoredMergesModes(update_response, agent_id, body) ==
    IF update_response.kind = "http" /\ update_response.status_code \in 200..299
    THEN LET held == agents[agent_id].agent.prompt.knowledge_base
             sent == body.agent.prompt.knowledge_base
             merged == [n \in 1..Len(sent) |->
                           IF n <= Len(held) /\ held[n].usage_mode = "auto"
                           THEN SetItem(sent[n], "usage_mode", "auto")
                           ELSE sent[n]]
         IN  [agents EXCEPT ![agent_id] =
                 [body EXCEPT !.agent.prompt.knowledge_base = merged]]
    ELSE agents

\* the upstream replaces the stored configuration when it accepts the PUT
Stored(update_response, agent_id, body) ==
    IF update_response.kind = "http" /\ update_response.status_code \in 200..299
    THEN [agents EXCEPT ![agent_id] = body]
    ELSE agents

\* the dict process_rag returns
RagSuccess ==
    [status |-> "success", message |-> "RAG configuration completed successfully"]

\* PUT .../agents/{agent_id}, the return of process_rag and the rest of
\* handle_conversation after the await
PutAgent(i) ==
    /\ pc[i] = "put"
    /\ loopOwner[worker[i]] = i
    /\ put_body' = [put_body EXCEPT ![i] = rag[i].agent_config]
    /\ \E update_response \in ResponsesUnparsed({[status |-> "ok"]}) :
         /\ Issue(i, "PUT_agent", update_response)
         /\ agents' = Stored(update_response, rag[i].request.agent_id,
                             rag[i].agent_config)
         /\ IF update_response.kind = "fault"
            THEN /\ RagRaise(i, ConnectionError)
                 /\ UNCHANGED << rag, talk >>
            ELSE IF Rejected(update_response)
            THEN /\ rag' = [rag EXCEPT ![i].update_response = update_response]
                 /\ RagRaise(i, HTTPException(update_response.status_code,
                                              "Failed to update agent configuration"))
                 /\ UNCHANGED talk
            ELSE /\ rag' = [rag EXCEPT ![i].update_response = update_response]
                 /\ talk' = [talk EXCEPT ![i].conversation_data =
                                SetItem(@, "rag_status", "processed")]
                 /\ Finish(i, Returned(RagSuccess),
                           Returned(SetItem(talk[i].conversation_data,
                                            "rag_status", "processed")))
                 /\ UNCHANGED raised
    /\ UNCHANGED << httpExcStr, worker, documents, indexJob >>

(***************************************************************************)
(* Specification                                                           *)
(***************************************************************************)
\* one step of the coroutine of request i
Step(i) ==
    \/ Accept(i)
    \/ Relay(i)
    \/ BeginIndex(i)
    \/ Poll(i)
    \/ Sleep(i)
    \/ GetAgent(i)
    \/ Mutate(i)
    \/ PutAgent(i)

Next == \E i \in Procs : Step(i)

Spec == Init /\ [][Next]_vars

\* every upstream call returns and the event loop runs a coroutine that can
\* run: no request is left for ever at a step it can take
FairSpec == Spec /\ \A i \in Procs : WF_vars(Step(i))

\* the same program deployed with two server processes
SpecWorkers == InitWorkers /\ [][Next]_vars

(***************************************************************************)
(* Vocabulary of the properties                                            *)
(***************************************************************************)
\* an HTTP response that is an upstream rejection
UpstreamRejection(response) ==
    response.kind = "http" /\ response.status_code >= 400

\* an HTTP 200 whose body parses
UpstreamSuccess(response) ==
    response.kind = "http" /\ response.status_code = 200 /\ response.valid

\* positions in the call log of request i that hold a call of kind op
CallsOf(i, op) == {k \in 1..Len(calls[i]) : calls[i][k].op = op}

\* every status poll request i has issued so far was answered with success
AllPollsSucceeded(i) ==
    \A k \in CallsOf(i, "GET_status") : UpstreamSuccess(calls[i][k].response)

\* C1: a non-success answer to the begin-indexing POST ends process_rag in a
\* failure with exactly that status code and the message "Failed to index
\* document", and no status poll, agent GET or agent PUT follows it
C1_IndexRejectionPropagated ==
    \A i \in Procs : \A k \in CallsOf(i, "POST_index") :
        UpstreamRejection(calls[i][k].response) =>
            /\ rag_result[i] =
                   Raised(HTTPException(calls[i][k].response.status_code,
                                        "Failed to index document"))
            /\ k = Len(calls[i])

\* C2: when the status endpoint answers a not-finished status k times
\* (k in 0..9) and then SUCCEEDED, all with success responses, exactly k+1
\* status calls are made and the agent configuration is fetched
C2_PendingThenSucceeded ==
    \A i \in Procs :
        ( /\ pc[i] = "done"
          /\ indexJob[i].final = "SUCCEEDED"
          /\ indexJob[i].pend <= max_retries - 1
          /\ AllPollsSucceeded(i) )
        => /\ Cardinality(CallsOf(i, "GET_status")) = indexJob[i].pend + 1
           /\ Cardinality(CallsOf(i, "GET_agent")) = 1

\* C3: when the status stays not-finished for 10 successful polls,
\* process_rag ends in failure 408 "Timeout waiting for document indexing"
\* after exactly 10 status calls and without an agent GET or PUT
C3_TimeoutAfterTenPolls ==
    \A i \in Procs :
        ( /\ pc[i] = "done"
          /\ indexJob[i].final # "none"
          /\ indexJob[i].pend >= max_retries
          /\ AllPollsSucceeded(i) )
        => /\ rag_result[i] =
                  Raised(HTTPException(408, "Timeout waiting for document indexing"))
           /\ Cardinality(CallsOf(i, "GET_status")) = max_retries
           /\ CallsOf(i, "GET_agent") = {}
           /\ CallsOf(i, "PUT_agent") = {}

\* C4: a status poll that reports FAILED ends process_rag in failure 400
\* "Failed to index document" at once: no later poll, agent GET or agent PUT
C4_FailedStatusAborts400 ==
    \A i \in Procs : \A k \in CallsOf(i, "GET_status") :
        ( /\ UpstreamSuccess(calls[i][k].response)
          /\ Get(calls[i][k].response.body, "status") = "FAILED" )
        => /\ rag_result[i] = Raised(HTTPException(400, "Failed to index document"))
           /\ k = Len(calls[i])

\* C9: a non-success answer to a status poll ends process_rag in a failure
\* with that status code and the message "Failed to check indexing status";
\* no later poll, agent GET or agent PUT is issued
C9_PollRejectionPropagated ==
    \A i \in Procs : \A k \in CallsOf(i, "GET_status") :
        UpstreamRejection(calls[i][k].response) =>
            /\ rag_result[i] =
                   Raised(HTTPException(calls[i][k].response.status_code,
                                        "Failed to check indexing status"))
            /\ k = Len(calls[i])

\* C10: a non-success answer to the agent GET ends process_rag in a failure
\* with that status code and the message "Failed to get agent
\* configuration", and no PUT is issued
C10_AgentGetRejectionPropagated ==
    \A i \in Procs : \A k \in CallsOf(i, "GET_agent") :
        UpstreamRejection(calls[i][k].response) =>
            /\ rag_result[i] =
                   Raised(HTTPException(calls[i][k].response.status_code,
                                        "Failed to get agent configuration"))
            /\ k = Len(calls[i])
            /\ CallsOf(i, "PUT_agent") = {}

\* C8: while one invocation waits between two polls, another request of the
\* same process can start running, and the waiting invocation leaves the
\* wait only into its next poll
C8_WaitSuspendsOnlyTheInvocation ==
    [][ \A i \in Procs :
          pc[i] = "sleep" =>
             /\ \A j \in Procs \ {i} : pc[j] = "idle" => ENABLED Accept(j)
             /\ pc'[i] \in {"sleep", "poll"} ]_vars

\* the configuration request i fetched with its agent GET
Fetched(i) ==
    calls[i][CHOOSE g \in CallsOf(i, "GET_agent") : TRUE].response.body

\* new is old with usage_mode "auto" and nothing else changed
SameButAuto(old, new) ==
    /\ DOMAIN new = DOMAIN old \cup {"usage_mode"}
    /\ new.usage_mode = "auto"
    /\ \A f \in DOMAIN old \ {"usage_mode"} : new[f] = old[f]

\* C5: the configuration sent in the PUT equals the one fetched except that
\* the rag object is {enabled: true, embedding_model, max_documents_length}
\* of the request and that the knowledge-base entries whose id is
\* document_id have usage_mode "auto"; every other entry and field is as
\* fetched
C5_WriteBackPreservesConfig ==
    \A i \in Procs :
        CallsOf(i, "PUT_agent") # {} =>
            LET fetched == Fetched(i)
                sent == put_body[i]
                request == rag[i].request
                fp == fetched.agent.prompt
                sp == sent.agent.prompt
            IN  /\ DOMAIN sent = DOMAIN fetched
                /\ \A f \in DOMAIN fetched \ {"agent"} : sent[f] = fetched[f]
                /\ DOMAIN sent.agent = DOMAIN fetched.agent
                /\ \A f \in DOMAIN fetched.agent \ {"prompt"} :
                       sent.agent[f] = fetched.agent[f]
                /\ DOMAIN sp = DOMAIN fp \cup {"rag"}
                /\ \A f \in DOMAIN fp \ {"rag", "knowledge_base"} : sp[f] = fp[f]
                /\ sp.rag = [enabled |-> TRUE,
                             embedding_model |-> request.embedding_model,
                             max_documents_length |-> request.max_documents_length]
                /\ Len(sp.knowledge_base) = Len(fp.knowledge_base)
                /\ \A n \in 1..Len(fp.knowledge_base) :
                       IF fp.knowledge_base[n].id = request.document_id
                       THEN SameButAuto(fp.knowledge_base[n], sp.knowledge_base[n])
                       ELSE sp.knowledge_base[n] = fp.knowledge_base[n]

\* a PUT was sent for document "b" after fetching knowledge base [a, b]:
\* b went from "prompt" to "auto" and a stayed as it was
C5_Witness ==
    \E i \in Procs :
        /\ CallsOf(i, "PUT_agent") # {}
        /\ rag[i].request.document_id = "b"
        /\ Fetched(i).agent.prompt.knowledge_base =
               << KbEntry("a", "prompt"), KbEntry("b", "prompt") >>
        /\ put_body[i].agent.prompt.knowledge_base =
               << KbEntry("a", "prompt"), KbEntry("b", "auto") >>
        /\ Fetched(i).agent.prompt.rag.enabled = FALSE
        /\ put_body[i].agent.prompt.rag.enabled = TRUE

\* the calls of the workflow, as opposed to the relay call
WorkflowOps == {"POST_index", "GET_status", "GET_agent", "PUT_agent"}

\* the kinds of the calls request i issued after the relay call, in order
WorkflowCalls(i) == [k \in 1..(Len(calls[i]) - 1) |-> calls[i][k + 1].op]

\* C6: when every workflow call is answered with success, the agent GET
\* answers with an agent configuration and the first status poll reports
\* SUCCEEDED, process_rag issues exactly one POST, one status GET, one agent
\* GET and one PUT, in this order, and returns the success result
C6_HappyPath ==
    \A i \in Procs :
        ( /\ pc[i] = "done"
          /\ rag[i].request # NoValue
          /\ indexJob[i] = [pend |-> 0, final |-> "SUCCEEDED"]
          /\ \A k \in 1..Len(calls[i]) :
                 calls[i][k].op \in WorkflowOps =>
                     UpstreamSuccess(calls[i][k].response)
          /\ \A g \in CallsOf(i, "GET_agent") :
                 calls[i][g].response.body \in
                     {AgentConfig(kb) : kb \in KnowledgeBases}
                       \cup {agents[a] : a \in DOMAIN agents} )
        => /\ WorkflowCalls(i) =
                  << "POST_index", "GET_status", "GET_agent", "PUT_agent" >>
           /\ rag_result[i] = Returned(RagSuccess)
           /\ outcome[i].kind = "returned"

\* a workflow that went through its four calls and returned success
C6_Witness ==
    \E i \in Procs :
        /\ pc[i] = "done"
        /\ rag_result[i] = Returned(RagSuccess)
        /\ WorkflowCalls(i) =
               << "POST_index", "GET_status", "GET_agent", "PUT_agent" >>
        /\ \A k \in 1..Len(calls[i]) : UpstreamSuccess(calls[i][k].response)

\* C7: a fault raised inside process_rag (a network error, an unparsable
\* body, a missing key, the fault of the inter-poll wait) leaves it as an
\* HTTPException with code 500 and the fault's description as its detail,
\* and nothing but an HTTPException leaves process_rag or the request
C7_FaultsBecome500 ==
    \A i \in Procs :
        /\ rag_result[i].kind = "raised" =>
               /\ rag_result[i].exc.type = "HTTPException"
               /\ outcome[i].kind = "raised"
               /\ outcome[i].exc.type = "HTTPException"
        /\ (rag_result[i].kind = "raised" /\ raised[i].type # "HTTPException") =>
               rag_result[i] = Raised(HTTPException(500, raised[i].detail))

\* process_rag has turned each kind of fault into a 500: one request met an
\* unparsable body or a missing key, another the fault of the wait or a
\* network error
C7_Witness ==
    \E i, j \in Procs :
        /\ rag_result[i].kind = "raised"
        /\ raised[i].type \in {"JSONDecodeError", "KeyError"}
        /\ rag_result[i] = Raised(HTTPException(500, raised[i].detail))
        /\ rag_result[j].kind = "raised"
        /\ raised[j].type \in {"TypeError", "ConnectionError"}
        /\ rag_result[j] = Raised(HTTPException(500, raised[j].detail))

\* C11: a non-success answer to the agent PUT ends process_rag in a failure
\* with that status code and the message "Failed to update agent
\* configuration", and process_rag does not return the success result
C11_PutRejectionPropagated ==
    \A i \in Procs : \A k \in CallsOf(i, "PUT_agent") :
        UpstreamRejection(calls[i][k].response) =>
            /\ rag_result[i] =
                   Raised(HTTPException(calls[i][k].response.status_code,
                                        "Failed to update agent configuration"))
            /\ rag_result[i] # Returned(RagSuccess)

\* an HTTP 200, whatever its body
Http200(response) == response.kind = "http" /\ response.status_code = 200

\* request i fetched an agent configuration none of whose knowledge-base
\* entries has the id of its document
FetchedWithoutMatch(i) ==
    /\ CallsOf(i, "GET_agent") # {}
    /\ \A g \in CallsOf(i, "GET_agent") : UpstreamSuccess(calls[i][g].response)
    /\ MissingKey(Fetched(i)) = None
    /\ \A n \in 1..Len(Fetched(i).agent.prompt.knowledge_base) :
           Fetched(i).agent.prompt.knowledge_base[n].id # rag[i].request.document_id

\* C12: when no knowledge-base entry of the fetched configuration has the
\* id document_id, the PUT is still issued, it carries the knowledge-base
\* list as fetched and the rag object of the request, and process_rag
\* returns success when the PUT is answered with success
C12_NoMatchIsNotAnError ==
    \A i \in Procs :
        FetchedWithoutMatch(i) =>
            /\ pc[i] = "done" => CallsOf(i, "PUT_agent") # {}
            /\ \A k \in CallsOf(i, "PUT_agent") :
                   /\ put_body[i].agent.prompt.knowledge_base =
                          Fetched(i).agent.prompt.knowledge_base
                   /\ put_body[i].agent.prompt.rag =
                          [enabled |-> TRUE,
                           embedding_model |-> rag[i].request.embedding_model,
                           max_documents_length |->
                               rag[i].request.max_documents_length]
                   /\ Http200(calls[i][k].response) =>
                          rag_result[i] = Returned(RagSuccess)

\* document "b" against a knowledge base that holds only "a": the list went
\* back as fetched and process_rag returned success
C12_Witness ==
    \E i \in Procs :
        /\ FetchedWithoutMatch(i)
        /\ rag[i].request.document_id = "b"
        /\ Fetched(i).agent.prompt.knowledge_base = << KbEntry("a", "prompt") >>
        /\ put_body[i] # NoValue
        /\ put_body[i].agent.prompt.knowledge_base = << KbEntry("a", "prompt") >>
        /\ rag_result[i] = Returned(RagSuccess)

\* the words that end a conversation, and each lower-case letter with its
\* capital
EndingWords ==
    { <<"g", "o", "o", "d", "b", "y", "e">>, <<"b", "y", "e">>, <<"e", "n", "d">> }

Capital ==
    [c \in {"b", "d", "e", "g", "n", "o", "y"} |->
        CASE c = "b" -> "B" [] c = "d" -> "D" [] c = "e" -> "E" [] c = "g" -> "G"
          [] c = "n" -> "N" [] c = "o" -> "O" [] c = "y" -> "Y"]

\* s is the lower-case word w up to the case of its letters
EqualsIgnoringCase(s, w) ==
    /\ Len(s) = Len(w)
    /\ \A k \in 1..Len(w) : s[k] = w[k] \/ s[k] = Capital[w[k]]

\* the relay call of request i was answered with a parsable 200
RelaySucceeded(i) ==
    Len(calls[i]) >= 1 /\ UpstreamSuccess(calls[i][1].response)

\* the last message of request i is one of the ending words
LastMessageEnds(i) ==
    LET messages == talk[i].request.messages
    IN  /\ Len(messages) > 0
        /\ \E w \in EndingWords :
               EqualsIgnoringCase(messages[Len(messages)].content, w)

\* the relay response of request i names a document
RelayNamesDocument(i) ==
    LET body == calls[i][1].response.body
    IN  "document_id" \in DOMAIN body /\ body.document_id # ""

\* process_rag was called for request i
Invoked(i) == rag[i].request # NoValue

\* C13: handle_conversation calls process_rag exactly when the relay call
\* succeeded, the last message equals "goodbye", "bye" or "end" up to case
\* and the relay response names a document, and it calls it with that
\* document; a response carries rag_status only after process_rag returned
\* success, and every other response is the relay response, returned
\* without any workflow call having been made
C13_InvokesExactlyOnEndingCue ==
    \A i \in Procs :
        pc[i] \notin {"idle", "relay"} =>
            /\ Invoked(i) <=>
                   (RelaySucceeded(i) /\ LastMessageEnds(i) /\ RelayNamesDocument(i))
            /\ Invoked(i) =>
                   rag[i].request.document_id = calls[i][1].response.body.document_id
            /\ outcome[i].kind = "returned" =>
                   IF "rag_status" \in DOMAIN outcome[i].value
                   THEN /\ Invoked(i)
                        /\ rag_result[i] = Returned(RagSuccess)
                        /\ outcome[i].value =
                               SetItem(calls[i][1].response.body,
                                       "rag_status", "processed")
                   ELSE /\ ~Invoked(i)
                        /\ outcome[i].value = calls[i][1].response.body
                        /\ Len(calls[i]) = 1

\* one request ended with "GoodBye", ran the workflow and answered with
\* rag_status; another ended with "bye!" although a document was named and
\* answered with the relay response alone
C13_Witness ==
    \E i, j \in Procs :
        /\ talk[i].request # NoValue
        /\ talk[i].request.messages = << Message("user", MixedGoodbye) >>
        /\ outcome[i].kind = "returned"
        /\ "rag_status" \in DOMAIN outcome[i].value
        /\ talk[j].request # NoValue
        /\ talk[j].request.messages =
               << Message("user", MixedBye), Message("user", ByeBang) >>
        /\ outcome[j] = Returned([reply |-> "hello", document_id |-> "b"])
        /\ Len(calls[j]) = 1

\* C14: when process_rag fails with code c and message m, the request ends
\* with an HTTPException of the same code c and the same message m; it never
\* returns a response after such a failure and nothing but an HTTPException
\* leaves it
C14_ActivatorFailureSurfaced ==
    \A i \in Procs :
        rag_result[i].kind = "raised" =>
            /\ outcome[i].kind = "raised"
            /\ outcome[i].exc.type = "HTTPException"
            /\ outcome[i].exc.status_code = rag_result[i].exc.status_code
            /\ outcome[i].exc.detail = rag_result[i].exc.detail

\* the knowledge-base entries of configuration config that have the id doc
\* are all in a usage mode other than "auto", and there is one
HeldNotAuto(config, doc) ==
    LET kb == config.agent.prompt.knowledge_base
    IN  /\ \E n \in 1..Len(kb) : kb[n].id = doc
        /\ \A n \in 1..Len(kb) : kb[n].id = doc => kb[n].usage_mode # "auto"

\* requests i and j both returned success from process_rag, for different
\* documents, after fetching the same stored configuration: neither fetch
\* saw the other's write
RacedOnWriteBack(i, j) ==
    /\ i # j
    /\ rag_result[i] = Returned(RagSuccess)
    /\ rag_result[j] = Returned(RagSuccess)
    /\ Fetched(i) = Fetched(j)
    /\ rag[i].request.document_id # rag[j].request.document_id
    /\ HeldNotAuto(Fetched(i), rag[i].request.document_id)
    /\ HeldNotAuto(Fetched(j), rag[j].request.document_id)

\* C15: nothing coordinates two invocations for the same agent: when both
\* fetched the configuration before either wrote it back and both report
\* success, the configuration held upstream is the body of one of the two
\* PUTs as sent, and the usage_mode change of the other invocation is not
\* in it
C15_LastWriterWins ==
    \A i, j \in Procs :
        RacedOnWriteBack(i, j) =>
            /\ agents[AgentId] \in {put_body[i], put_body[j]}
            /\ \/ HeldNotAuto(agents[AgentId], rag[i].request.document_id)
               \/ HeldNotAuto(agents[AgentId], rag[j].request.document_id)

\* both invocations fetched [a, b] before either wrote; both report
\* success; the stored configuration has only one of the two documents
\* on "auto"
C15_Witness ==
    \E i, j \in Procs :
        /\ RacedOnWriteBack(i, j)
        /\ agents[AgentId] = put_body[j]
        /\ HeldNotAuto(agents[AgentId], rag[i].request.document_id)
        /\ ~HeldNotAuto(agents[AgentId], rag[j].request.document_id)

\* the status a parsable 200 answer to a status poll reports
ReportedStatus(response) == Get(response.body, "status")

\* C16: within one invocation the calls go POST begin-indexing, status GETs,
\* agent GET, agent PUT: a status GET follows the POST answered with
\* success or a status GET that reported a not-finished status, the agent
\* GET follows a status GET that reported SUCCEEDED, and the PUT follows the
\* agent GET answered with success
C16_StrictOrder ==
    \A i \in Procs : \A k \in 1..Len(calls[i]) :
        LET call == calls[i][k]
            before == calls[i][k - 1].response
            beforeOp == calls[i][k - 1].op
        IN  /\ call.op = "POST_conversation" <=> k = 1
            /\ call.op = "POST_index" => k = 2
            /\ call.op = "GET_status" =>
                   \/ beforeOp = "POST_index" /\ Http200(before)
                   \/ /\ beforeOp = "GET_status"
                      /\ UpstreamSuccess(before)
                      /\ ReportedStatus(before) \notin {"SUCCEEDED", "FAILED"}
            /\ call.op = "GET_agent" =>
                   /\ beforeOp = "GET_status"
                   /\ UpstreamSuccess(before)
                   /\ ReportedStatus(before) = "SUCCEEDED"
            /\ call.op = "PUT_agent" =>
                   beforeOp = "GET_agent" /\ UpstreamSuccess(before)

\* an invocation that went through all four steps, the last of which the
\* upstream rejected
C16_Witness ==
    \E i \in Procs :
        /\ WorkflowCalls(i) =
               << "POST_index", "GET_status", "GET_agent", "PUT_agent" >>
        /\ UpstreamRejection(calls[i][5].response)

\* C17: provided every upstream call returns, every invocation of
\* process_rag ends, by returning success or by raising, and no invocation
\* ever issues more than 10 status polls
C17_EndsWithinTenPolls ==
    /\ \A i \in Procs :
           Invoked(i) ~> (rag_result[i].kind \in {"returned", "raised"})
    /\ [](\A i \in Procs : Cardinality(CallsOf(i, "GET_status")) <= max_retries)

\* one invocation has ended by returning and another by raising after it
\* had polled the status
C17_Witness ==
    \E i, j \in Procs :
        /\ Invoked(i)
        /\ rag_result[i].kind = "returned"
        /\ Invoked(j)
        /\ rag_result[j].kind = "raised"
        /\ CallsOf(j, "GET_status") # {}

\* C18: whatever the upstream answers, one invocation issues the POST
\* begin-indexing, the agent GET and the agent PUT at most once each
C18_NoStepRetried ==
    \A i \in Procs :
        /\ Cardinality(CallsOf(i, "POST_index")) <= 1
        /\ Cardinality(CallsOf(i, "GET_agent")) <= 1
        /\ Cardinality(CallsOf(i, "PUT_agent")) <= 1

\* an invocation that failed at its agent GET or at its PUT and ended
\* without issuing that call, or any other, again
C18_Witness ==
    \E i \in Procs :
        /\ pc[i] = "done"
        /\ rag_result[i].kind = "raised"
        /\ Cardinality(CallsOf(i, "POST_index")) = 1
        /\ Cardinality(CallsOf(i, "GET_agent")) = 1
        /\ calls[i][Len(calls[i])].op \in {"GET_agent", "PUT_agent"}
        /\ ~UpstreamSuccess(calls[i][Len(calls[i])].response)

\* C19: every failure that leaves process_rag, whichever step raised it, is
\* an HTTPException with status code 500, and so is every failure that
\* leaves handle_conversation, a rejected relay call included
C19_EveryFailureIs500 ==
    \A i \in Procs :
        /\ rag_result[i].kind = "raised" =>
               /\ rag_result[i].exc.type = "HTTPException"
               /\ rag_result[i].exc.status_code = 500
        /\ outcome[i].kind = "raised" =>
               /\ outcome[i].exc.type = "HTTPException"
               /\ outcome[i].exc.status_code = 500

\* a request whose relay call was rejected with 404 and a request whose
\* indexing reported FAILED both ended with code 500
C19_Witness ==
    \E i, j \in Procs :
        /\ raised[i] = HTTPException(404, "Failed to process conversation")
        /\ outcome[i].kind = "raised"
        /\ outcome[i].exc.status_code = 500
        /\ raised[j] = HTTPException(400, "Failed to index document")
        /\ rag_result[j].kind = "raised"
        /\ rag_result[j].exc.status_code = 500
        /\ outcome[j].exc.status_code = 500

\* the message of the HTTPException each call raises when it is rejected
RejectionMessage ==
    [op \in WorkflowOps \cup {"POST_conversation"} |->
        CASE op = "POST_conversation" -> "Failed to process conversation"
          [] op = "POST_index" -> "Failed to index document"
          [] op = "GET_status" -> "Failed to check indexing status"
          [] op = "GET_agent" -> "Failed to get agent configuration"
          [] op = "PUT_agent" -> "Failed to update agent configuration"]

\* C20: at the relay call and at each of the four workflow calls an answer
\* with any status code other than 200, 201 included, takes the abort path
\* of that call: the HTTPException of that call is raised with that code,
\* the request ends in failure and no further call is issued
C20_Only200IsSuccess ==
    \A i \in Procs : \A k \in 1..Len(calls[i]) :
        LET call == calls[i][k]
        IN  (call.response.kind = "http" /\ call.response.status_code # 200) =>
                /\ k = Len(calls[i])
                /\ raised[i] = HTTPException(call.response.status_code,
                                             RejectionMessage[call.op])
                /\ outcome[i].kind = "raised"
                /\ call.op \in WorkflowOps => rag_result[i].kind = "raised"

\* a 201 to the PUT and a 201 to the begin-indexing POST both ended their
\* invocations in failure
C20_Witness ==
    \E i, j \in Procs :
        /\ Len(calls[i]) = 5
        /\ calls[i][5].op = "PUT_agent"
        /\ calls[i][5].response.status_code = 201
        /\ rag_result[i].kind = "raised"
        /\ Len(calls[j]) = 2
        /\ calls[j][2].op = "POST_index"
        /\ calls[j][2].response.status_code = 201
        /\ rag_result[j].kind = "raised"

====
